---- MODULE Spec2Model ----
(***************************************************************************)
(* Model of the recursive-descent parser (src/src/parser.rs) and of the    *)
(* tokenizer it pulls tokens from (src/src/tokenizer.rs).                  *)
(*                                                                         *)
(* A source text is a sequence of one-character strings.  The tokenizer's  *)
(* cursor counts the characters consumed, so the character at the cursor   *)
(* is str[cursor + 1].  Every parser function is an operator that takes    *)
(* the source and the parser state [cursor, lookahead] and gives back the  *)
(* new state with the value it returns; a panic is a returned value tagged *)
(* "Panic" that every caller hands on unchanged.                           *)
(***************************************************************************)
EXTENDS Integers, Sequences, FiniteSets, TLC

VARIABLES string, tokstring, cursor, lookahead, out, calls, stack

vars == <<string, tokstring, cursor, lookahead, out, calls, stack>>

(***************************************************************************)
(* Bounds of the model.                                                    *)
(***************************************************************************)
MaxLen == 3

MaxCalls == 2

(***************************************************************************)
(* Values: Option<Literal>, Literal, LiteralValue, Result, panics.         *)
(***************************************************************************)
None == [tag |-> "None"]

Some(x) == [tag |-> "Some", lit |-> x]

Value(s) == [tag |-> "Value", s |-> s]

NestedValue(o) == [tag |-> "NestedValue", n |-> o]

NestedValueList(l) == [tag |-> "NestedValueList", l |-> l]

Literal(t, v) == [literal_type |-> t, value |-> v]

Ok(token) == [tag |-> "Ok", lit |-> token]

Err(e) == [tag |-> "Err", err |-> e]

Vec(l) == [tag |-> "Vec", l |-> l]

Lit(x) == [tag |-> "Literal", lit |-> x]

Panic(msg, e) == [tag |-> "Panic", msg |-> msg, err |-> e]

NoCall == [tag |-> "NoCall"]

UnexpectedToken(found, token_type) ==
    [what |-> "Unexpected token", found |-> found, expected |-> token_type]

UnexpectedEnd(token_type) ==
    [what |-> "Unexpected end of input", found |-> Value(<<>>),
     expected |-> token_type]

IndexOutOfBounds ==
    [what |-> "index out of bounds", found |-> Value(<<>>), expected |-> ""]

NoError == [what |-> "", found |-> Value(<<>>), expected |-> ""]

Ret(c, la, r) == [cursor |-> c, lookahead |-> la, ret |-> r]

IsPanic(r) == r.ret.tag = "Panic"

(***************************************************************************)
(* Tokenizer.                                                              *)
(***************************************************************************)
Digits == {"0", "1", "2", "3", "4", "5", "6", "7", "8", "9"}

Quote == "\""

\* The characters of the sources that take two bytes in UTF-8; every other
\* character of the sources takes one.
TwoByteChars == {"é"}

\* String::len(): the length of the source in bytes.  The cursor counts
\* characters (it indexes the Vec<char> of line 29), and Len(str) is the
\* length of that vector.
len(str) ==
    Len(str) + Cardinality({i \in DOMAIN str : str[i] \in TwoByteChars})

has_more_tokens(str, cur) == cur < len(str)

is_eof(str, cur) == cur = len(str)

\* The loop of lines 34-37: the cursor after the maximal run of digits.
RECURSIVE ScanNumber(_, _)
ScanNumber(str, cur) ==
    IF cur < Len(str) /\ str[cur + 1] \in Digits
    THEN ScanNumber(str, cur + 1)
    ELSE cur

\* The loop of lines 49-52.  string[self.cursor] is read before is_eof() is
\* asked, so the loop leaves the source (index out of bounds, -1 here) when
\* no closing quote follows.
RECURSIVE ScanString(_, _)
ScanString(str, cur) ==
    IF cur >= Len(str)
    THEN -1
    ELSE IF str[cur + 1] # Quote /\ ~is_eof(str, cur)
         THEN ScanString(str, cur + 1)
         ELSE cur

\* The mutant of get_next_token: a character no rule matches is stepped over
\* before the tokenizer answers None.
get_next_token_skipping(str, cur) ==
    IF ~has_more_tokens(str, cur)
    THEN [cursor |-> cur, ret |-> None]
    ELSE IF cur >= Len(str)
    THEN [cursor |-> cur, ret |-> Panic("tokenizer", IndexOutOfBounds)]
    ELSE IF str[cur + 1] \in Digits
         THEN LET end == ScanNumber(str, cur)
              IN  [cursor |-> end,
                   ret |-> Some(Literal("NUMBER", Value(SubSeq(str, cur + 1, end))))]
         ELSE IF str[cur + 1] = Quote
              THEN LET end == ScanString(str, cur + 1)
                   IN  IF end = -1
                       THEN [cursor |-> Len(str),
                             ret |-> Panic("tokenizer", IndexOutOfBounds)]
                       ELSE [cursor |-> end + 1,
                             ret |-> Some(Literal("STRING",
                                          Value(SubSeq(str, cur + 2, end))))]
              ELSE [cursor |-> cur + 1, ret |-> None]

\* A second mutant of get_next_token: at the end of the input the tokenizer
\* rewinds to the start before it answers None.
get_next_token_rewinding(str, cur) ==
    IF ~has_more_tokens(str, cur)
    THEN [cursor |-> 0, ret |-> None]
    ELSE IF cur >= Len(str)
    THEN [cursor |-> cur, ret |-> Panic("tokenizer", IndexOutOfBounds)]
    ELSE IF str[cur + 1] \in Digits
         THEN LET end == ScanNumber(str, cur)
              IN  [cursor |-> end,
                   ret |-> Some(Literal("NUMBER", Value(SubSeq(str, cur + 1, end))))]
         ELSE IF str[cur + 1] = Quote
              THEN LET end == ScanString(str, cur + 1)
                   IN  IF end = -1
                       THEN [cursor |-> Len(str),
                             ret |-> Panic("tokenizer", IndexOutOfBounds)]
                       ELSE [cursor |-> end + 1,
                             ret |-> Some(Literal("STRING",
                                          Value(SubSeq(str, cur + 2, end))))]
              ELSE [cursor |-> cur, ret |-> None]

\* Tokenizer::get_next_token.  The token's value is the String the tokenizer
\* collected, held as LiteralValue::Value in the parser's Literal.  The
\* cursor is bounded by the length in bytes (line 23) and then indexes the
\* characters (line 32): past the last character of a source with a
\* two-byte character in it the index is out of bounds.
get_next_token(str, cur) ==
    IF ~has_more_tokens(str, cur)
    THEN [cursor |-> cur, ret |-> None]
    ELSE IF cur >= Len(str)
    THEN [cursor |-> cur, ret |-> Panic("tokenizer", IndexOutOfBounds)]
    ELSE IF str[cur + 1] \in Digits
         THEN LET end == ScanNumber(str, cur)
              IN  [cursor |-> end,
                   ret |-> Some(Literal("NUMBER", Value(SubSeq(str, cur + 1, end))))]
         ELSE IF str[cur + 1] = Quote
              THEN LET end == ScanString(str, cur + 1)
                   IN  IF end = -1
                       THEN [cursor |-> Len(str),
                             ret |-> Panic("tokenizer", IndexOutOfBounds)]
                       ELSE [cursor |-> end + 1,
                             ret |-> Some(Literal("STRING",
                                          Value(SubSeq(str, cur + 2, end))))]
              ELSE [cursor |-> cur, ret |-> None]

(***************************************************************************)
(* Parser.                                                                 *)
(***************************************************************************)
\* The refill of line 271 and the return of line 273; g is what
\* get_next_token gave.
Refill(st, g) ==
    IF g.ret.tag = "Panic"
    THEN Ret(g.cursor, st.lookahead, g.ret)
    ELSE Ret(g.cursor, g.ret, Ok(st.lookahead.lit))

\* The mutant of eat: the tokenizer is pulled before the kinds are compared,
\* so a mismatch loses the lookahead it reports.
eat_pulling_first(str, st, token_type) ==
    IF st.lookahead.tag = "Some"
    THEN IF st.lookahead.lit.literal_type # token_type
         THEN Ret(get_next_token(str, st.cursor).cursor,
                  IF get_next_token(str, st.cursor).ret.tag = "Panic"
                  THEN st.lookahead ELSE get_next_token(str, st.cursor).ret,
                  Err(UnexpectedToken(st.lookahead.lit.value, token_type)))
         ELSE Refill(st, get_next_token(str, st.cursor))
    ELSE Ret(st.cursor, st.lookahead, Err(UnexpectedEnd(token_type)))

eat(str, st, token_type) ==
    IF st.lookahead.tag = "Some"
    THEN IF st.lookahead.lit.literal_type # token_type
         THEN Ret(st.cursor, st.lookahead,
                  Err(UnexpectedToken(st.lookahead.lit.value, token_type)))
         ELSE Refill(st, get_next_token(str, st.cursor))
    ELSE Ret(st.cursor, st.lookahead, Err(UnexpectedEnd(token_type)))

\* Result::expect at the call sites of eat: an Err becomes a panic.
Expect(r, msg) ==
    IF r.ret.tag = "Err"
    THEN Ret(r.cursor, r.lookahead, Panic(msg, r.ret.err))
    ELSE r

\* Sequencing: a panic of r is handed on, anything else goes to the rest K
\* of the function.
Then(r, K(_)) == IF IsPanic(r) THEN r ELSE K(r)

\* The match of lines 238-245 and 252-259 on what eat gave.
LiteralNode(e, node_type) ==
    IF e.ret.tag = "Ok"
    THEN Ret(e.cursor, e.lookahead, Lit(Literal(node_type, e.ret.lit.value)))
    ELSE IF e.ret.tag = "Err"
         THEN Ret(e.cursor, e.lookahead, Panic("", e.ret.err))
         ELSE e

numeric_literal(str, st) == LiteralNode(eat(str, st, "NUMBER"), "NumericLiteral")

string_literal(str, st) == LiteralNode(eat(str, st, "STRING"), "StringLiteral")

literal(str, st) ==
    IF st.lookahead.tag = "None"
    THEN Ret(st.cursor, st.lookahead, None)
    ELSE IF st.lookahead.lit.literal_type = "NUMBER"
         THEN Then(numeric_literal(str, st),
                   LAMBDA n : Ret(n.cursor, n.lookahead, Some(n.ret.lit)))
         ELSE IF st.lookahead.lit.literal_type = "STRING"
              THEN Then(string_literal(str, st),
                        LAMBDA n : Ret(n.cursor, n.lookahead, Some(n.ret.lit)))
              ELSE Ret(st.cursor, st.lookahead,
                       Panic("Literal: unexpected literal production.", NoError))

RECURSIVE statement_list(_, _, _), StatementListLoop(_, _, _, _)
RECURSIVE statement(_, _), block_statement(_, _), expression_statement(_, _)
RECURSIVE expression(_, _), binary_expression(_, _, _), BinaryLoop(_, _, _, _)
RECURSIVE primary_expression(_, _), parenthesised_expression(_, _)

\* The operand of a binary expression: the next tighter level (lines 169-173
\* and 181-185).
Operand(str, st, operator_token) ==
    IF operator_token = "ADDITIVE_OPERATOR"
    THEN binary_expression(str, st, "MULTIPLICATIVE_OPERATOR")
    ELSE IF operator_token = "MULTIPLICATIVE_OPERATOR"
         THEN primary_expression(str, st)
         ELSE Ret(st.cursor, st.lookahead, None)

\* The node built at lines 187-203 from Some(left), the operator token and
\* Some(right).
BinaryNode(left, operator, right) ==
    Literal("BinaryExpression",
            NestedValueList(<<Some(Literal("Left", left.value)),
                              Some(Literal("Operator", operator.value)),
                              Some(Literal("Right", right.value))>>))

\* The while loop of lines 175-204; left is Option<Literal>.  A missing
\* lookahead makes the function return None (the ? of line 175), and so does
\* a missing left or right operand (the ? of lines 192 and 200).
BinaryLoop(str, st, operator_token, left) ==
    IF st.lookahead.tag = "None"
    THEN Ret(st.cursor, st.lookahead, None)
    ELSE IF st.lookahead.lit.literal_type # operator_token
         THEN Ret(st.cursor, st.lookahead, left)
         ELSE Then(Expect(eat(str, st, operator_token), "eat operator"),
                LAMBDA e :
                  Then(Operand(str, e, operator_token),
                    LAMBDA right :
                      IF left.tag = "None" \/ right.ret.tag = "None"
                      THEN Ret(right.cursor, right.lookahead, None)
                      ELSE BinaryLoop(str, right, operator_token,
                               Some(BinaryNode(left.lit, e.ret.lit, right.ret.lit)))))

binary_expression(str, st, operator_token) ==
    Then(Operand(str, st, operator_token),
         LAMBDA left : BinaryLoop(str, left, operator_token, left.ret))

multiplicative_expression(str, st) ==
    binary_expression(str, st, "MULTIPLICATIVE_OPERATOR")

additive_expression(str, st) ==
    binary_expression(str, st, "ADDITIVE_OPERATOR")

expression(str, st) == additive_expression(str, st)

parenthesised_expression(str, st) ==
    Then(Expect(eat(str, st, "("), "eat ("),
      LAMBDA open :
        Then(expression(str, open),
          LAMBDA e :
            Then(Expect(eat(str, e, ")"), "eat )"),
              LAMBDA close : Ret(close.cursor, close.lookahead, e.ret))))

primary_expression(str, st) ==
    IF st.lookahead.tag = "None"
    THEN Ret(st.cursor, st.lookahead, None)
    ELSE IF st.lookahead.lit.literal_type = "("
         THEN parenthesised_expression(str, st)
         ELSE literal(str, st)

expression_statement(str, st) ==
    Then(expression(str, st),
      LAMBDA e :
        Then(Expect(eat(str, e, ";"), "eat ;"),
          LAMBDA semi :
            Ret(semi.cursor, semi.lookahead,
                Some(Literal("ExpressionStatement", NestedValue(e.ret))))))

\* Lines 116-119: the body of the block, once '{' is eaten.  This part is
\* reached with a lookahead only (the ? of line 117).
BlockBody(str, open) ==
    IF open.lookahead.lit.literal_type # "}"
    THEN statement_list(str, open, Some(Value(<<"}">>)))
    ELSE Ret(open.cursor, open.lookahead, Vec(<<>>))

block_statement(str, st) ==
    Then(Expect(eat(str, st, "{"), "eat {"),
      LAMBDA open :
        IF open.lookahead.tag = "None"
        THEN Ret(open.cursor, open.lookahead, None)
        ELSE Then(BlockBody(str, open),
               LAMBDA body :
                 Then(Expect(eat(str, body, "}"), "eat }"),
                   LAMBDA close :
                     Ret(close.cursor, close.lookahead,
                         Some(Literal("BlockStatement",
                                      NestedValueList(body.ret.l)))))))

statement(str, st) ==
    IF st.lookahead.tag = "None"
    THEN Ret(st.cursor, st.lookahead, None)
    ELSE IF st.lookahead.lit.literal_type = "{"
         THEN block_statement(str, st)
         ELSE expression_statement(str, st)

\* The while loop of lines 84-91; list is the vector built so far.
StatementListLoop(str, st, stop_lookahead, list) ==
    IF st.lookahead.tag = "None"
    THEN Ret(st.cursor, st.lookahead, Vec(list))
    ELSE IF stop_lookahead.tag = "Some" /\ st.lookahead.lit.value = stop_lookahead.lit
         THEN Ret(st.cursor, st.lookahead, Vec(list))
         ELSE Then(statement(str, st),
                LAMBDA s :
                  StatementListLoop(str, s, stop_lookahead, Append(list, s.ret)))

statement_list(str, st, stop_lookahead) ==
    Then(statement(str, st),
      LAMBDA first :
        StatementListLoop(str, first, stop_lookahead, <<first.ret>>))

program(str, st) ==
    Then(statement_list(str, st, None),
      LAMBDA l :
        Ret(l.cursor, l.lookahead,
            Some(Literal("Program", NestedValueList(l.ret.l)))))

\* Lines 44-46, g being what the pull of line 44 gave.  When the pull
\* panics the assignment of line 44 does not happen: the lookahead stays.
Primed(str, st, g) ==
    IF g.ret.tag = "Panic"
    THEN Ret(g.cursor, st.lookahead, g.ret)
    ELSE program(str, [cursor |-> g.cursor, lookahead |-> g.ret])

\* Parser::parse on a Parser whose tokenizer stands at st.cursor and whose
\* lookahead is st.lookahead.
parse(str, st) == Primed(str, st, get_next_token(str, st.cursor))

\* Parser::new: the cursor at 0, no lookahead.
new == [cursor |-> 0, lookahead |-> None]

(***************************************************************************)
(* Sources the operations are called with.                                 *)
(***************************************************************************)
Chars == {"4", Quote, ";", "é"}

\* "hello", the string literal of the tests.
Hello == <<Quote, "h", "e", "l", "l", "o", Quote>>

\* A numeric literal of one digit, one of two digits, a string literal.
Operands == {<<"2">>, <<"4", "2">>, Hello}

AdditiveOps == {"+", "-"}

MultiplicativeOps == {"*", "/"}

\* a + b * c;
PrecedenceSource(a, b, c) ==
    a \o <<" ", "+", " ">> \o b \o <<" ", "*", " ">> \o c \o <<";">>

\* (a + b) * c;
ParenSource(a, b, c) ==
    <<"(">> \o a \o <<" ", "+", " ">> \o b \o <<")", " ", "*", " ">> \o c \o <<";">>

\* 2 op1 2 op2 2 ... ;
RECURSIVE ChainTail(_)
ChainTail(ops) ==
    IF ops = <<>> THEN <<";">>
    ELSE <<" ", Head(ops), " ", "2">> \o ChainTail(Tail(ops))

ChainSource(ops) == <<"2">> \o ChainTail(ops)

\* The sequences of n elements of S.
RECURSIVE SeqsOfLen(_, _)
SeqsOfLen(S, n) ==
    IF n = 0 THEN {<<>>}
    ELSE {Append(s, c) : s \in SeqsOfLen(S, n - 1), c \in S}

Chains ==
    UNION {SeqsOfLen(AdditiveOps, n) \cup SeqsOfLen(MultiplicativeOps, n) :
           n \in 2..MaxLen}

\* n spaces.
Spaces(n) == [i \in 1..n |-> " "]

\* The source of test_statement_lists, character by character.
CommentedSource ==
    <<"\n">>
    \o Spaces(12)
    \o <<"/", "/", " ", "P", "r", "o", "g", "r", "a", "m", "\n">>
    \o Spaces(12)
    \o <<"/", "*", "\n">>
    \o Spaces(16)
    \o <<"M", "u", "l", "t", "i", "l", "i", "n", "e", " ", "c", "o", "m", "m",
         "e", "n", "t", "s", ".", ".", ".", "\n">>
    \o Spaces(12)
    \o <<"*", "/", "\n">>
    \o Spaces(12)
    \o Hello \o <<";", "\n">>
    \o Spaces(12)
    \o <<"4", "2", ";", "\n">>
    \o Spaces(12)

\* The source of test_string_literals, character by character.
StringLiteralSource ==
    <<"\n">>
    \o Spaces(12)
    \o Hello \o <<";", "\n">>
    \o Spaces(12)

\* The source of test_numeric_literals, character by character.
NumericLiteralSource ==
    <<"\n">>
    \o Spaces(12)
    \o <<"4", "2", ";", "\n">>
    \o Spaces(12)

\* The source of test_blocks, character by character.
BlockSource ==
    <<"\n">>
    \o Spaces(12)
    \o <<"{", "\n">>
    \o Spaces(14)
    \o <<"4", "2", ";", "\n">>
    \o Spaces(14)
    \o Hello \o <<";", "\n">>
    \o Spaces(12)
    \o <<"}", "\n">>
    \o Spaces(12)

\* The source of test_empty_block, character by character.
CommentBlockSource ==
    <<"\n">>
    \o Spaces(12)
    \o <<"{", "\n">>
    \o Spaces(14)
    \o <<"/", "/", " ", ".", ".", ".", "\n">>
    \o Spaces(12)
    \o <<"}", "\n">>
    \o Spaces(12)

\* The source of test_nested_blocks, character by character.
NestedBlockSource ==
    <<"\n">>
    \o Spaces(12)
    \o <<"{", "\n">>
    \o Spaces(14)
    \o <<"4", "2", ";", "\n">>
    \o Spaces(14)
    \o <<"{", "\n">>
    \o Spaces(16)
    \o Hello \o <<";", "\n">>
    \o Spaces(14)
    \o <<"}", "\n">>
    \o Spaces(12)
    \o <<"}", "\n">>
    \o Spaces(12)

\* The source of test_math, character by character.
MathSource ==
    <<"\n">>
    \o Spaces(12)
    \o <<"2", " ", "+", " ", "2", " ", "*", " ", "2", ";", "\n">>
    \o Spaces(12)

\* The source of test_op_precedence, character by character.
OpPrecedenceSource ==
    <<"\n">>
    \o Spaces(12)
    \o <<"(", "2", " ", "+", " ", "2", ")", " ", "*", " ", "2", ";", "\n">>
    \o Spaces(12)

TestSources ==
    {CommentedSource,
     StringLiteralSource,
     NumericLiteralSource,
     BlockSource,
     CommentBlockSource,
     NestedBlockSource,
     MathSource,
     OpPrecedenceSource}

\* A source and the same source with whitespace and comments put between
\* its tokens.
TransparencyPairs ==
    { [base |-> Hello \o <<";", "4", "2", ";">>, deco |-> CommentedSource],
      [base |-> Hello \o <<";">>, deco |-> StringLiteralSource],
      [base |-> <<"4", "2", ";">>, deco |-> NumericLiteralSource],
      [base |-> <<"4", "2", ";">>, deco |-> <<" ", "4", "2", ";">>],
      [base |-> <<"4", "2", ";">>, deco |-> <<"4", "2", " ", ";">>],
      [base |-> <<"4", "2", ";">>, deco |-> <<"4", "2", ";", " ">>],
      [base |-> <<"4", "2", ";">>,
       deco |-> <<"/", "*", "m", "*", "/", "4", "2", ";">>],
      [base |-> <<Quote, "h", Quote, ";">>,
       deco |-> <<"/", "/", "p", "\n", Quote, "h", Quote, ";">>] }

EmptyBlockSource == <<"{", " ", "}">>

\* Sources the grammar cannot reduce to Program: no statement at all, an
\* unclosed block, an expression cut off by the end of the input.
IrreducibleSources ==
    { <<>>, <<"{">>, <<"{", " ", "4", "2", ";">>, <<"2", " ", "+">>, <<"(", "2">> }

\* Sources with a character no lexical rule matches.
UnmatchedSources ==
    { <<"@", ";">>, <<"4", "2", ";", "@">>, <<"#", "2", ";">> }

\* A complete expression with the end of the input right after it.
UnterminatedSources ==
    { <<"4", "2">>, <<Quote, "h", Quote>>, <<"2", "+", "4">>, <<"2", "*", "4">>,
      <<"(", "2", ")">>, <<"(", "2", "+", "4", ")", "*", "2">>,
      <<Quote, "é", Quote>> }

\* A statement that begins with ";", ")", "}" or an operator.
MalformedSources ==
    { <<";">>, <<")", ";">>, <<"}">>, <<"+", "2", ";">>, <<"*", "2", ";">>,
      <<"-", "2", ";">>, <<"/", "2", ";">> }

ClaimSources ==
    {PrecedenceSource(a, b, c) : a \in Operands, b \in Operands, c \in Operands}
    \cup {ParenSource(a, b, c) : a \in Operands, b \in Operands, c \in Operands}
    \cup {ChainSource(ops) : ops \in Chains}
    \cup {p.base : p \in TransparencyPairs} \cup {p.deco : p \in TransparencyPairs}
    \cup {EmptyBlockSource} \cup TestSources
    \cup IrreducibleSources \cup UnmatchedSources \cup UnterminatedSources
    \cup MalformedSources

Sources == UNION {SeqsOfLen(Chars, n) : n \in 0..MaxLen} \cup ClaimSources

(***************************************************************************)
(* The parser as a state machine: a Parser is built, and parse is called   *)
(* on it.  out is what the last call gave its caller; calls counts the     *)
(* parse calls made on this Parser.  A panic unwinds the caller, which     *)
(* needs a new Parser to go on.                                            *)
(***************************************************************************)
Init ==
    /\ string = <<>>
    /\ tokstring = <<>>
    /\ cursor = 0
    /\ lookahead = None
    /\ out = NoCall
    /\ calls = 0
    /\ stack = <<>>

New ==
    /\ out.tag # "NoCall"
    /\ string' = <<>>
    /\ tokstring' = <<>>
    /\ cursor' = 0
    /\ lookahead' = None
    /\ out' = NoCall
    /\ calls' = 0
    /\ stack' = stack

Parse ==
    /\ out.tag # "Panic"
    /\ calls < MaxCalls
    /\ \E s \in Sources :
          LET r == parse(s, [cursor |-> cursor, lookahead |-> lookahead])
          IN  /\ string' = s
              /\ tokstring' = s
              /\ cursor' = r.cursor
              /\ lookahead' = r.lookahead
              /\ out' = r.ret
              /\ calls' = calls + 1
    /\ stack' = stack

Next == New \/ Parse

Spec == Init /\ [][Next]_vars

(***************************************************************************)
(* Calls of the tokenizer and of Parser::literal on a parser that has been *)
(* given a source (lines 39-40) and stands at cursor 0.                    *)
(***************************************************************************)
InitUnit ==
    /\ \E s \in Sources : string = s /\ tokstring = s
    /\ cursor = 0
    /\ lookahead = None
    /\ out = NoCall
    /\ calls = 0
    /\ stack = <<>>

\* self.lookahead = self.tokenizer.get_next_token()
GetNextToken ==
    /\ out.tag # "Panic"
    /\ LET g == get_next_token(tokstring, cursor)
       IN  /\ cursor' = g.cursor
           /\ lookahead' = IF g.ret.tag = "Panic" THEN lookahead ELSE g.ret
           /\ out' = g.ret
    /\ UNCHANGED <<string, tokstring, calls, stack>>

LiteralCall ==
    /\ out.tag # "Panic"
    /\ LET r == literal(tokstring, [cursor |-> cursor, lookahead |-> lookahead])
       IN  /\ cursor' = r.cursor
           /\ lookahead' = r.lookahead
           /\ out' = r.ret
    /\ UNCHANGED <<string, tokstring, calls, stack>>

\* The token kinds of the grammar: what eat is asked for in parser.rs.
TokenKinds ==
    {"NUMBER", "STRING", ";", "{", "}", "(", ")",
     "ADDITIVE_OPERATOR", "MULTIPLICATIVE_OPERATOR"}

\* self.eat(token_type)
EatCall(token_type) ==
    /\ out.tag # "Panic"
    /\ LET r == eat(tokstring, [cursor |-> cursor, lookahead |-> lookahead],
                    token_type)
       IN  /\ cursor' = r.cursor
           /\ lookahead' = r.lookahead
           /\ out' = r.ret
    /\ UNCHANGED <<string, tokstring, calls, stack>>

Eat == \E token_type \in TokenKinds : EatCall(token_type)

NextUnit == GetNextToken \/ LiteralCall \/ Eat

SpecUnit == InitUnit /\ [][NextUnit]_vars

(***************************************************************************)
(* One call of parse, taken step by step.  stack holds the frames of the   *)
(* calls in progress, the innermost last; a step runs the innermost call   *)
(* up to its next call or return.  out is what the last return gave.  A    *)
(* frame keeps the function's locals: operator_token and stop_lookahead    *)
(* are the arguments, list is statement_list's vector, left and operator   *)
(* are binary_expression's.  mark is the cursor at the start of the loop   *)
(* iteration in progress, -1 before the first one.  expression,            *)
(* additive_expression and multiplicative_expression only forward to       *)
(* binary_expression (lines 147-165) and get no frame of their own, and a  *)
(* function whose last act is a call (parse, statement,                    *)
(* primary_expression) gives its frame to the callee.                      *)
(***************************************************************************)
Frame(fn, operator_token, stop_lookahead) ==
    [fn |-> fn, pc |-> 0, operator_token |-> operator_token,
     stop_lookahead |-> stop_lookahead, list |-> <<>>, left |-> None,
     operator |-> None, mark |-> -1]

Enter(fn) == Frame(fn, "", None)

EnterBinary(operator_token) == Frame("binary_expression", operator_token, None)

EnterList(stop_lookahead) == Frame("statement_list", "", stop_lookahead)

Top(stk) == stk[Len(stk)]

Pop(stk) == SubSeq(stk, 1, Len(stk) - 1)

Cfg(stk, r) ==
    [stack |-> stk, cursor |-> r.cursor, lookahead |-> r.lookahead,
     out |-> r.ret]

\* The innermost call returns r.ret; a panic unwinds every frame.
Return(stk, r) == IF IsPanic(r) THEN Cfg(<<>>, r) ELSE Cfg(Pop(stk), r)

\* The innermost call goes on as frame f.
Goto(stk, f, st, o) == Cfg(Pop(stk) \o <<f>>, Ret(st.cursor, st.lookahead, o))

\* The innermost call goes on as frame f once callee has returned.
Call(stk, f, callee, st, o) ==
    Cfg(Pop(stk) \o <<f, callee>>, Ret(st.cursor, st.lookahead, o))

\* Lines 169-173 and 181-185: the operand of a binary expression.
CallOperand(stk, f, st, o) ==
    IF f.operator_token = "ADDITIVE_OPERATOR"
    THEN Call(stk, f, EnterBinary("MULTIPLICATIVE_OPERATOR"), st, o)
    ELSE IF f.operator_token = "MULTIPLICATIVE_OPERATOR"
         THEN Call(stk, f, Enter("primary_expression"), st, o)
         ELSE Goto(stk, f, st, None)

\* parse, lines 39-46.
StepParse(str, stk, st, o) ==
    IF get_next_token(str, st.cursor).ret.tag = "Panic"
    THEN Cfg(<<>>, Ret(get_next_token(str, st.cursor).cursor, st.lookahead,
                       get_next_token(str, st.cursor).ret))
    ELSE Goto(stk, Enter("program"),
              [cursor |-> get_next_token(str, st.cursor).cursor,
               lookahead |-> get_next_token(str, st.cursor).ret], o)

\* program, lines 54-59.
StepProgram(stk, f, st, o) ==
    IF f.pc = 0
    THEN Call(stk, [f EXCEPT !.pc = 1], EnterList(None), st, o)
    ELSE Return(stk, Ret(st.cursor, st.lookahead,
                         Some(Literal("Program", NestedValueList(o.l)))))

\* statement_list, lines 79-94; pc 2 is the test of the while loop.
StepStatementList(stk, f, st, o) ==
    IF f.pc = 0
    THEN Call(stk, [f EXCEPT !.pc = 1], Enter("statement"), st, o)
    ELSE IF f.pc = 1
    THEN Goto(stk, [f EXCEPT !.pc = 2, !.list = <<o>>], st, o)
    ELSE IF f.pc = 2
    THEN IF \/ st.lookahead.tag = "None"
            \/ /\ f.stop_lookahead.tag = "Some"
               /\ st.lookahead.lit.value = f.stop_lookahead.lit
         THEN Return(stk, Ret(st.cursor, st.lookahead, Vec(f.list)))
         ELSE Call(stk, [f EXCEPT !.pc = 3, !.mark = st.cursor],
                   Enter("statement"), st, o)
    ELSE Goto(stk, [f EXCEPT !.pc = 2, !.list = Append(@, o)], st, o)

\* statement, lines 101-107.
StepStatement(stk, st, o) ==
    IF st.lookahead.tag = "None"
    THEN Return(stk, Ret(st.cursor, st.lookahead, None))
    ELSE IF st.lookahead.lit.literal_type = "{"
         THEN Goto(stk, Enter("block_statement"), st, o)
         ELSE Goto(stk, Enter("expression_statement"), st, o)

\* Lines 121-127 of block_statement.
CloseBlock(stk, close, body) ==
    Return(stk, IF IsPanic(close)
                THEN close
                ELSE Ret(close.cursor, close.lookahead,
                         Some(Literal("BlockStatement", NestedValueList(body)))))

\* Lines 113-119 of block_statement, open being what eat('{') gave.
OpenBlock(str, stk, f, open, o) ==
    IF IsPanic(open)
    THEN Return(stk, open)
    ELSE IF open.lookahead.tag = "None"
         THEN Return(stk, Ret(open.cursor, open.lookahead, None))
         ELSE IF open.lookahead.lit.literal_type # "}"
              THEN Call(stk, [f EXCEPT !.pc = 1],
                        EnterList(Some(Value(<<"}">>))), open, o)
              ELSE CloseBlock(stk, Expect(eat(str, open, "}"), "eat }"), <<>>)

\* block_statement, lines 112-128.
StepBlockStatement(str, stk, f, st, o) ==
    IF f.pc = 0
    THEN OpenBlock(str, stk, f, Expect(eat(str, st, "{"), "eat {"), o)
    ELSE CloseBlock(stk, Expect(eat(str, st, "}"), "eat }"), o.l)

\* Lines 135-141 of expression_statement, semi being what eat(';') gave.
CloseStatement(stk, semi, e) ==
    Return(stk, IF IsPanic(semi)
                THEN semi
                ELSE Ret(semi.cursor, semi.lookahead,
                         Some(Literal("ExpressionStatement", NestedValue(e)))))

\* expression_statement, lines 133-142.
StepExpressionStatement(str, stk, f, st, o) ==
    IF f.pc = 0
    THEN Call(stk, [f EXCEPT !.pc = 1], EnterBinary("ADDITIVE_OPERATOR"), st, o)
    ELSE CloseStatement(stk, Expect(eat(str, st, ";"), "eat ;"), o)

\* Lines 178-185 of binary_expression, e being what eat(operator) gave.
EatOperator(stk, f, e, mark, o) ==
    IF IsPanic(e)
    THEN Return(stk, e)
    ELSE CallOperand(stk, [f EXCEPT !.pc = 3, !.operator = Some(e.ret.lit),
                                    !.mark = mark], e, o)

\* binary_expression, lines 168-207; pc 2 is the test of the while loop.
StepBinaryExpression(str, stk, f, st, o) ==
    IF f.pc = 0
    THEN CallOperand(stk, [f EXCEPT !.pc = 1], st, o)
    ELSE IF f.pc = 1
    THEN Goto(stk, [f EXCEPT !.pc = 2, !.left = o], st, o)
    ELSE IF f.pc = 2
    THEN IF st.lookahead.tag = "None"
         THEN Return(stk, Ret(st.cursor, st.lookahead, None))
         ELSE IF st.lookahead.lit.literal_type # f.operator_token
              THEN Return(stk, Ret(st.cursor, st.lookahead, f.left))
              ELSE EatOperator(stk, f,
                       Expect(eat(str, st, f.operator_token), "eat operator"),
                       st.cursor, o)
    ELSE IF f.left.tag = "None" \/ o.tag = "None"
         THEN Return(stk, Ret(st.cursor, st.lookahead, None))
         ELSE Goto(stk, [f EXCEPT !.pc = 2,
                                  !.left = Some(BinaryNode(f.left.lit,
                                                   f.operator.lit, o.lit))],
                   st, o)

\* primary_expression, lines 213-220.
StepPrimaryExpression(stk, st, o) ==
    IF st.lookahead.tag = "None"
    THEN Return(stk, Ret(st.cursor, st.lookahead, None))
    ELSE IF st.lookahead.lit.literal_type = "("
         THEN Goto(stk, Enter("parenthesised_expression"), st, o)
         ELSE Goto(stk, Enter("literal"), st, o)

\* Lines 226-228 of parenthesised_expression, open being what eat('(') gave.
OpenParenthesis(stk, f, open, o) ==
    IF IsPanic(open)
    THEN Return(stk, open)
    ELSE Call(stk, [f EXCEPT !.pc = 1], EnterBinary("ADDITIVE_OPERATOR"),
              open, o)

\* Lines 229-231 of parenthesised_expression, close being what eat(')') gave.
CloseParenthesis(stk, close, e) ==
    Return(stk, IF IsPanic(close)
                THEN close
                ELSE Ret(close.cursor, close.lookahead, e))

\* parenthesised_expression, lines 225-232.
StepParenthesisedExpression(str, stk, f, st, o) ==
    IF f.pc = 0
    THEN OpenParenthesis(stk, f, Expect(eat(str, st, "("), "eat ("), o)
    ELSE CloseParenthesis(stk, Expect(eat(str, st, ")"), "eat )"), o)

\* The code the innermost call runs up to its next call or return.
RunTop(str, stk, st, o) ==
    CASE Top(stk).fn = "parse" -> StepParse(str, stk, st, o)
      [] Top(stk).fn = "program" -> StepProgram(stk, Top(stk), st, o)
      [] Top(stk).fn = "statement_list" ->
             StepStatementList(stk, Top(stk), st, o)
      [] Top(stk).fn = "statement" -> StepStatement(stk, st, o)
      [] Top(stk).fn = "block_statement" ->
             StepBlockStatement(str, stk, Top(stk), st, o)
      [] Top(stk).fn = "expression_statement" ->
             StepExpressionStatement(str, stk, Top(stk), st, o)
      [] Top(stk).fn = "binary_expression" ->
             StepBinaryExpression(str, stk, Top(stk), st, o)
      [] Top(stk).fn = "primary_expression" ->
             StepPrimaryExpression(stk, st, o)
      [] Top(stk).fn = "parenthesised_expression" ->
             StepParenthesisedExpression(str, stk, Top(stk), st, o)
      [] Top(stk).fn = "literal" -> Return(stk, literal(str, st))

\* A new Parser on which parse(s) has just been called.
InitSteps ==
    /\ \E s \in Sources : string = s /\ tokstring = s
    /\ cursor = 0
    /\ lookahead = None
    /\ out = NoCall
    /\ calls = 1
    /\ stack = <<Enter("parse")>>

Step ==
    /\ stack # <<>>
    /\ LET n == RunTop(tokstring, stack,
                       [cursor |-> cursor, lookahead |-> lookahead], out)
       IN  /\ stack' = n.stack
           /\ cursor' = n.cursor
           /\ lookahead' = n.lookahead
           /\ out' = n.out
    /\ UNCHANGED <<string, tokstring, calls>>

NextSteps == Step

\* A call in progress goes on: nothing in the program holds it up.
SpecSteps == InitSteps /\ [][NextSteps]_vars /\ WF_vars(Step)

\* The run of parse by steps ends where the parse operator says.
StepsAgree ==
    stack = <<>> =>
        /\ out = parse(string, new).ret
        /\ cursor = parse(string, new).cursor
        /\ lookahead = parse(string, new).lookahead

(***************************************************************************)
(* The trees the claims speak of, written as the tests of parser.rs write  *)
(* them.                                                                   *)
(***************************************************************************)
LitNode(a) ==
    IF a[1] = Quote THEN Literal("StringLiteral", Value(a))
                    ELSE Literal("NumericLiteral", Value(a))

ExpectedBinary(left, op, right) ==
    Literal("BinaryExpression",
            NestedValueList(<<Some(Literal("Left", left.value)),
                              Some(Literal("Operator", Value(<<op>>))),
                              Some(Literal("Right", right.value))>>))

ExpectedStatement(e) == Some(Literal("ExpressionStatement", NestedValue(Some(e))))

ExpectedBlock(body) == Some(Literal("BlockStatement", NestedValueList(body)))

ExpectedProgram(stmts) == Some(Literal("Program", NestedValueList(stmts)))

\* ((2 op1 2) op2 2) ... : the earlier operation is the left operand.
RECURSIVE LeftFold(_, _)
LeftFold(acc, ops) ==
    IF ops = <<>> THEN acc
    ELSE LeftFold(ExpectedBinary(acc, Head(ops), LitNode(<<"2">>)), Tail(ops))

\* A tree with an absent (None) child somewhere in it.
RECURSIVE HasAbsentNode(_)
HasAbsentNode(node) ==
    IF node.value.tag = "NestedValue"
    THEN node.value.n.tag = "None" \/ HasAbsentNode(node.value.n.lit)
    ELSE IF node.value.tag = "NestedValueList"
         THEN \E i \in 1..Len(node.value.l) :
                 node.value.l[i].tag = "None" \/ HasAbsentNode(node.value.l[i].lit)
         ELSE FALSE

(***************************************************************************)
(* The claims.                                                             *)
(***************************************************************************)

\* C1: multiplicative operators bind tighter than additive ones: parse of
\* `a + b * c;` returns Program[ExpressionStatement(a + (b * c))].
C1_MultiplicativeBindsTighter ==
    \A a \in Operands, b \in Operands, c \in Operands :
        (/\ calls > 0
         /\ \/ string = PrecedenceSource(a, b, c)
            \/ string = MathSource /\ a = <<"2">> /\ b = <<"2">> /\ c = <<"2">>) =>
            out = ExpectedProgram(<<ExpectedStatement(
                      ExpectedBinary(LitNode(a), "+",
                          ExpectedBinary(LitNode(b), "*", LitNode(c))))>>)

\* C2: parentheses override precedence: parse of `(a + b) * c;` returns
\* Program[ExpressionStatement((a + b) * c)], with no node for the parentheses.
C2_ParenthesesOverride ==
    \A a \in Operands, b \in Operands, c \in Operands :
        (/\ calls > 0
         /\ \/ string = ParenSource(a, b, c)
            \/ string = OpPrecedenceSource
                 /\ a = <<"2">> /\ b = <<"2">> /\ c = <<"2">>) =>
            out = ExpectedProgram(<<ExpectedStatement(
                      ExpectedBinary(ExpectedBinary(LitNode(a), "+", LitNode(b)),
                                     "*", LitNode(c)))>>)

\* C3: operators of equal precedence are left-associative: a chain of n >= 2
\* operators of one class parses to the left fold of its operands.
C3_LeftAssociative ==
    \A ops \in Chains :
        (calls > 0 /\ string = ChainSource(ops)) =>
            out = ExpectedProgram(<<ExpectedStatement(LeftFold(LitNode(<<"2">>), ops))>>)

\* C4: whitespace and comments are transparent: a source with whitespace and
\* comments between its tokens gives what the source without them gives, and
\* the commented source of test_statement_lists gives the two statements.
C4_Transparent ==
    /\ \A p \in TransparencyPairs :
          (calls > 0 /\ string = p.deco) => out = parse(p.base, new).ret
    /\ (calls > 0 /\ string = CommentedSource)
          => out = ExpectedProgram(<<ExpectedStatement(LitNode(Hello)),
                                     ExpectedStatement(LitNode(<<"4", "2">>))>>)

\* C5: a literal stores the raw matched text: the value of a token is the
\* text the cursor moved over (for NUMBER the maximal run of digits, for
\* STRING the text with both quotes), and the literal node takes the value of
\* the token it is made from.
C5_RawText ==
    [][ /\ (GetNextToken /\ out'.tag = "Some") =>
              /\ out'.lit.value = Value(SubSeq(tokstring, cursor + 1, cursor'))
              /\ Len(out'.lit.value.s) = cursor' - cursor
              /\ out'.lit.literal_type = "NUMBER" =>
                     (cursor' = Len(tokstring) \/ tokstring[cursor' + 1] \notin Digits)
        /\ (LiteralCall /\ out'.tag = "Some") =>
              /\ out'.lit.value = lookahead.lit.value
              /\ out'.lit.literal_type =
                     (IF lookahead.lit.literal_type = "NUMBER"
                      THEN "NumericLiteral" ELSE "StringLiteral") ]_vars

\* C6: the body of a BlockStatement is the sequence of statements between
\* its braces: empty for `{ }`, and a nested block is one child of the outer.
C6_BlockBody ==
    /\ (calls > 0 /\ string \in {EmptyBlockSource, CommentBlockSource}) =>
          out = ExpectedProgram(<<ExpectedBlock(<<>>)>>)
    /\ (calls > 0 /\ string = BlockSource) =>
          out = ExpectedProgram(<<ExpectedBlock(
                    <<ExpectedStatement(LitNode(<<"4", "2">>)),
                      ExpectedStatement(LitNode(Hello))>>)>>)
    /\ (calls > 0 /\ string = NestedBlockSource) =>
          out = ExpectedProgram(<<ExpectedBlock(
                    <<ExpectedStatement(LitNode(<<"4", "2">>)),
                      ExpectedBlock(<<ExpectedStatement(LitNode(Hello))>>)>>)>>)

\* C7: parse returns a tree only when the whole input reduces to Program: a
\* source that cannot be reduced makes parse fail, and no returned tree has an
\* absent (None) statement or expression node.
C7_TreeOnlyWhenReduced ==
    /\ (calls > 0 /\ string \in IrreducibleSources) => out.tag = "Panic"
    /\ out.tag = "Some" => ~HasAbsentNode(out.lit)

\* C8: a character no lexical rule matches is a fatal error, never the end
\* of the input: parse gives no tree for a source with such a character, and
\* there the tokenizer answers None only with the cursor at the end.
C8_LexicalError ==
    (calls > 0 /\ string \in UnmatchedSources) =>
        /\ out.tag = "Panic"
        /\ lookahead.tag = "None" => cursor = Len(tokstring)

\* C9: a complete expression with the end of the input right after it (no
\* `;`) makes parse fail with the unexpected-end-of-input error that expects
\* `;`.
C9_MissingSemicolon ==
    (calls > 0 /\ string \in UnterminatedSources) =>
        out = Panic("eat ;", UnexpectedEnd(";"))

\* C10: parse on a Parser whose earlier parse calls returned gives what
\* parse on a new Parser gives: scanning starts at cursor 0 of the new source.
C10_ParseResets ==
    [][(calls >= 1 /\ calls' = calls + 1) =>
          /\ cursor = 0
          /\ out' = parse(string', new).ret
          /\ lookahead' = parse(string', new).lookahead
          /\ cursor' = parse(string', new).cursor]_vars

\* A second parse call on one Parser read the number 42 from its first
\* character and failed for the missing `;`, as on a new Parser.
C10_Witness ==
    /\ calls = 2
    /\ string = <<"4", "2">>
    /\ cursor = 2
    /\ out = Panic("eat ;", UnexpectedEnd(";"))

\* C11 as claimed: eat(expected_kind) has exactly three outcomes.  With a
\* lookahead of the expected kind it returns that token and the lookahead is
\* the tokenizer's next token; with a lookahead of another kind it fails
\* naming the found text and the expected kind; with no lookahead it fails
\* with the unexpected-end-of-input error naming the expected kind.  The
\* tokenizer is pulled in the first outcome only.
C11_ThreeOutcomes ==
    [][\A k \in TokenKinds : EatCall(k) =>
          \/ /\ lookahead.tag = "Some"
             /\ lookahead.lit.literal_type = k
             /\ out' = Ok(lookahead.lit)
             /\ lookahead' = get_next_token(tokstring, cursor).ret
             /\ lookahead'.tag \in {"Some", "None"}
             /\ cursor' >= cursor
          \/ /\ lookahead.tag = "Some"
             /\ lookahead.lit.literal_type # k
             /\ out' = Err(UnexpectedToken(lookahead.lit.value, k))
             /\ UNCHANGED <<cursor, lookahead>>
          \/ /\ lookahead.tag = "None"
             /\ out' = Err(UnexpectedEnd(k))
             /\ UNCHANGED <<cursor, lookahead>>]_vars

\* The text from the cursor on is a double quote with no second one after it.
UnclosedStringAhead ==
    /\ cursor < Len(tokstring)
    /\ tokstring[cursor + 1] = Quote
    /\ \A i \in (cursor + 2)..Len(tokstring) : tokstring[i] # Quote

\* The cursor stands past the last character of a source that is longer in
\* bytes than in characters.
PastLastCharacter == Len(tokstring) <= cursor /\ cursor < len(tokstring)

\* The pull of the tokenizer from the cursor panics (lines 32 and 49).
PullPanics == UnclosedStringAhead \/ PastLastCharacter

\* C11, amended: eat(expected_kind) has the three outcomes of the claim and a
\* fourth one: with a lookahead of the expected kind, and ahead of the cursor
\* either a string literal without closing quote or the end of the
\* characters of a source with a two-byte character in it, the pull of the
\* tokenizer panics, eat returns no token and the lookahead is not replaced.
\* The tokenizer is pulled only when the lookahead has the expected kind.
C11_Outcomes ==
    [][\A k \in TokenKinds : EatCall(k) =>
          \/ /\ lookahead.tag = "Some"
             /\ lookahead.lit.literal_type = k
             /\ ~PullPanics
             /\ out' = Ok(lookahead.lit)
             /\ lookahead' = get_next_token(tokstring, cursor).ret
             /\ lookahead'.tag \in {"Some", "None"}
             /\ cursor' >= cursor
          \/ /\ lookahead.tag = "Some"
             /\ lookahead.lit.literal_type = k
             /\ PullPanics
             /\ out' = Panic("tokenizer", IndexOutOfBounds)
             /\ lookahead' = lookahead
          \/ /\ lookahead.tag = "Some"
             /\ lookahead.lit.literal_type # k
             /\ out' = Err(UnexpectedToken(lookahead.lit.value, k))
             /\ UNCHANGED <<cursor, lookahead>>
          \/ /\ lookahead.tag = "None"
             /\ out' = Err(UnexpectedEnd(k))
             /\ UNCHANGED <<cursor, lookahead>>]_vars

\* eat has returned the NUMBER token it was asked for, and the lookahead is
\* the STRING token the tokenizer gave next.
C11_Witness ==
    /\ out.tag = "Ok"
    /\ out.lit.literal_type = "NUMBER"
    /\ lookahead.tag = "Some"
    /\ lookahead.lit.literal_type = "STRING"
    /\ cursor = Len(tokstring)

\* The failure of an eat call: the found text (or the end of the input) and
\* the expected kind.
IsSyntaxError(o) ==
    /\ o.tag = "Panic"
    /\ o.err.what \in {"Unexpected token", "Unexpected end of input"}

\* C12: no source makes parse reach literal() with a lookahead that exists
\* and is neither NUMBER nor STRING (the "unexpected literal production"
\* panic is never the outcome of parse), and a source whose statement begins
\* with ";", ")", "}" or an operator is reported as a syntax error.
C12_NoLiteralProduction ==
    /\ out.tag = "Panic" => out.msg # "Literal: unexpected literal production."
    /\ (calls > 0 /\ string \in MalformedSources) => IsSyntaxError(out)

\* The innermost call stands at the test of a while loop.
AtLoopTest ==
    /\ stack # <<>>
    /\ Top(stack).fn \in {"statement_list", "binary_expression"}
    /\ Top(stack).pc = 2

\* With the tokenizer of tokenizer.rs no iteration of either loop ever
\* begins: the lookahead at a loop test is a NUMBER, a STRING or absent, and
\* the statement before the test of statement_list has ended in a failure
\* unless the lookahead is absent.
NoIteration == \A i \in DOMAIN stack : stack[i].mark = -1

\* C13: parse ends on every source, with a tree or a failure; the cursor
\* never decreases; and whenever the loop of statement_list or of
\* binary_expression comes back to its test after an iteration, the cursor
\* stands beyond where it stood when that iteration began.
C13_Terminates ==
    /\ <>(stack = <<>>)
    /\ [](stack = <<>> => out.tag \in {"Some", "Panic"})
    /\ [][cursor' >= cursor]_vars
    /\ []((AtLoopTest /\ Top(stack).mark >= 0) => cursor > Top(stack).mark)

\* parse has ended in a failure after the cursor had moved over two tokens.
C13_Witness ==
    /\ stack = <<>>
    /\ out.tag = "Panic"
    /\ lookahead.tag = "Some"
    /\ lookahead.lit.literal_type = "STRING"
    /\ cursor = Len(string)
    /\ cursor > 1

====
